---- MODULE Spec2Model ----
(***************************************************************************)
(* Model of Screen.py (EDAP-AI): monitor discovery, the centred 16:9 crop, *)
(* calibration-scale resolution, the percent/pixel coordinate conversions  *)
(* and the live/static capture paths of class Screen.                      *)
(*                                                                         *)
(* Numbers.  Python floats are modelled exactly by rationals: a percent    *)
(* value is a pair <<num, den>> with a power-of-two denominator, so the    *)
(* float product percent * pixels is exact and int() is truncation toward  *)
(* zero of num * pixels / den.  The tests in _calculate_16_9_crop on       *)
(* raw_w / raw_h against 16/9 are cross-multiplied into integers.          *)
(***************************************************************************)
EXTENDS Integers, Sequences, FiniteSets, TLC

(***************************** bounds **************************************)
\* most physical monitors mss reports besides the aggregate monitor 0
MaxMons == 2
\* largest raw width / height of the monitor grid of SpecCrop
MaxRawW == 330
MaxRawH == 190
\* threads reading Screen.mss, and reads each of them makes, in SpecMss
NumThreads == 3
MaxReads == 2

(***************************** values **************************************)
\* Python None, and "attribute holds v", as sequences of length 0 and 1
None == << >>
Some(v) == << v >>

Abs(n) == IF n < 0 THEN -n ELSE n

\* Python int() of the float num / den (den > 0): truncation toward zero
Trunc(num, den) ==
    IF num >= 0 THEN num \div den ELSE -((-num) \div den)

Min(S) == CHOOSE x \in S : \A y \in S : x <= y
Max(S) == CHOOSE x \in S : \A y \in S : x >= y

(************************ the display environment **************************)
Monitor(o, d) == [left |-> o[1], top |-> o[2], width |-> d[1], height |-> d[2]]

\* the physical monitors of the main specification: 16:9, ultrawide and 5:4
\* panels, at the desktop origin or to the right of a 1920 wide panel
PhysMonitors ==
    { Monitor(<<0, 0>>, <<1920, 1080>>), Monitor(<<0, 0>>, <<3440, 1440>>),
      Monitor(<<1920, 0>>, <<1280, 1024>>), Monitor(<<1920, 0>>, <<1920, 1080>>) }

\* mss.monitors: index 0 is the bounding box of all monitors, 1..n the
\* physical monitors
Aggregate(real) ==
    LET n  == Len(real)
        l  == Min({ real[i].left : i \in 1..n })
        t  == Min({ real[i].top : i \in 1..n })
        r  == Max({ real[i].left + real[i].width : i \in 1..n })
        b  == Max({ real[i].top + real[i].height : i \in 1..n })
    IN  [left |-> l, top |-> t, width |-> r - l, height |-> b - t]

MonitorList(real) ==
    [i \in 0..Len(real) |-> IF i = 0 THEN Aggregate(real) ELSE real[i]]

LastIndex(ms) == Max(DOMAIN ms)

\* win32gui.GetWindowRect of the Elite window: (left, top) of the rect, or
\* None when FindWindow fails.  <<-8, -8>> is a maximised window's frame.
WindowRects == { None, <<0, 0>>, <<1920, 0>>, <<-8, -8>> }

(***************************** scale table *********************************)
\* key "WxH" as the pair <<W, H>>; a scale factor as the rational <<n, d>>
DefaultScales ==
    ( <<1024, 768>>  :> << <<39, 100>>, <<39, 100>> >> ) @@
    ( <<1080, 1080>> :> << <<5, 10>>,   <<5, 10>>   >> ) @@
    ( <<1280, 800>>  :> << <<48, 100>>, <<48, 100>> >> ) @@
    ( <<1280, 1024>> :> << <<5, 10>>,   <<5, 10>>   >> ) @@
    ( <<1600, 900>>  :> << <<6, 10>>,   <<6, 10>>   >> ) @@
    ( <<1920, 1080>> :> << <<75, 100>>, <<75, 100>> >> ) @@
    ( <<1920, 1200>> :> << <<73, 100>>, <<73, 100>> >> ) @@
    ( <<1920, 1440>> :> << <<8, 10>>,   <<8, 10>>   >> ) @@
    ( <<2560, 1080>> :> << <<75, 100>>, <<75, 100>> >> ) @@
    ( <<2560, 1440>> :> << <<1, 1>>,    <<1, 1>>    >> ) @@
    ( <<3440, 1440>> :> << <<1, 1>>,    <<1, 1>>    >> )

\* a calibrated table an operator may have saved to resolution.json
CustomScales ==
    ( <<1920, 1080>> :> << <<7, 10>>, <<72, 100>> >> ) @@
    ( <<1280, 720>>  :> << <<1, 2>>,  <<1, 2>>    >> )

\* contents of ./configs/resolution.json: None when missing or unparsable
ConfigFiles == { None, Some(CustomScales) }

(***************************** state ***************************************)
VARIABLES
    pc,                 \* "new" before __init__ has run, "ready" after
    mons,               \* mss.monitors
    ed_window,          \* what get_elite_window_rect() returns
    config_file,        \* contents of ./configs/resolution.json
    has_mon,            \* self.monitor_number / self.mon exist
    monitor_number,
    raw_screen_width,
    raw_screen_height,
    crop_offset_x,
    crop_offset_y,
    screen_width,
    screen_height,
    scales,
    scaleX,
    scaleY,
    using_screen,
    _screen_image,
    cb_log,             \* messages handed to the ap_ckb callback
    op,                 \* the last operation that ran
    ret,                \* what it returned or raised
    grab_req,           \* the request it handed to mss.grab, if any
    mss_instance,       \* Screen._thread_local.mss_instance, per storage slot
    handle_creator,     \* handle_creator[h]: the thread whose mss.mss() made h
    tpc,                \* per thread: where it is in the mss property
    got                 \* per thread: the handles its reads of Screen.mss returned

geometry == << has_mon, monitor_number, raw_screen_width, raw_screen_height,
               crop_offset_x, crop_offset_y, screen_width, screen_height >>
environment == << mons, ed_window >>
threads == << mss_instance, handle_creator, tpc, got >>
vars == << pc, mons, ed_window, config_file, has_mon, monitor_number,
           raw_screen_width, raw_screen_height, crop_offset_x, crop_offset_y,
           screen_width, screen_height, scales, scaleX, scaleY,
           using_screen, _screen_image, cb_log, op, ret, grab_req,
           mss_instance, handle_creator, tpc, got >>

NoResult == [kind |-> "none"]

(************************ Screen.mss ***************************************)
Threads == 1..NumThreads

\* the thread that constructs the Screen object and calls its methods
Caller == 1

\* a single class attribute where the code keeps a threading.local()
Slot_shared(t) == 1

\* threading.local(): the storage slot thread t sees is its own
Slot(t) == t

\* not hasattr(Screen._thread_local, 'mss_instance') as thread t sees it
NoInstance(t) == mss_instance[Slot(t)] = None

\* the handle mss.mss() returns: an object no earlier call returned
NewHandle == Len(handle_creator) + 1

\* the property as run by one thread without interruption: the storage and
\* the creators after it
Acquired(t) ==
    IF NoInstance(t)
    THEN [instance |-> [mss_instance EXCEPT ![Slot(t)] = Some(NewHandle)],
          creator |-> Append(handle_creator, t)]
    ELSE [instance |-> mss_instance, creator |-> handle_creator]

\* thread t enters the property: the hasattr test, and the return when the
\* attribute exists
MssRead(t) ==
    /\ tpc[t] = "idle"
    /\ Len(got[t]) < MaxReads
    /\ IF NoInstance(t)
       THEN /\ tpc' = [tpc EXCEPT ![t] = "create"]
            /\ UNCHANGED got
       ELSE /\ got' = [got EXCEPT ![t] = Append(@, mss_instance[Slot(t)][1])]
            /\ UNCHANGED tpc
    /\ UNCHANGED << mss_instance, handle_creator >>

\* thread t assigns mss.mss() to the attribute and returns it
MssCreate(t) ==
    /\ tpc[t] = "create"
    /\ mss_instance' = [mss_instance EXCEPT ![Slot(t)] = Some(NewHandle)]
    /\ handle_creator' = Append(handle_creator, t)
    /\ got' = [got EXCEPT ![t] = Append(@, mss_instance'[Slot(t)][1])]
    /\ tpc' = [tpc EXCEPT ![t] = "idle"]

(************************ Screen.__init__ **********************************)
\* what the monitor loop assigns
NoSelection ==
    [has_mon |-> FALSE, monitor_number |-> 0,
     raw_screen_width |-> 0, raw_screen_height |-> 0]

Select(ms, mon_num) ==
    [has_mon |-> TRUE, monitor_number |-> mon_num,
     raw_screen_width |-> ms[mon_num].width,
     raw_screen_height |-> ms[mon_num].height]

\* the monitor loop without the break of its default branch
RECURSIVE monitor_loop_no_break(_, _, _, _)
monitor_loop_no_break(ms, ed_rect, mon_num, sel) ==
    IF mon_num > LastIndex(ms) THEN sel
    ELSE IF mon_num > 0
    THEN IF ed_rect = None
         THEN monitor_loop_no_break(ms, ed_rect, mon_num + 1, Select(ms, mon_num))
         ELSE IF ms[mon_num].left = ed_rect[1] /\ ms[mon_num].top = ed_rect[2]
              THEN monitor_loop_no_break(ms, ed_rect, mon_num + 1,
                                         Select(ms, mon_num))
              ELSE monitor_loop_no_break(ms, ed_rect, mon_num + 1, sel)
    ELSE monitor_loop_no_break(ms, ed_rect, mon_num + 1, sel)

\* for item in self.mons, from mon_num on; sel is what is assigned so far
RECURSIVE monitor_loop(_, _, _, _)
monitor_loop(ms, ed_rect, mon_num, sel) ==
    IF mon_num > LastIndex(ms) THEN sel
    ELSE IF mon_num > 0
    THEN IF ed_rect = None
         THEN Select(ms, mon_num)                                  \* break
         ELSE IF ms[mon_num].left = ed_rect[1] /\ ms[mon_num].top = ed_rect[2]
              THEN monitor_loop(ms, ed_rect, mon_num + 1, Select(ms, mon_num))
              ELSE monitor_loop(ms, ed_rect, mon_num + 1, sel)
    ELSE monitor_loop(ms, ed_rect, mon_num + 1, sel)

\* |raw_w / raw_h - 16/9| < 0.01, with raw_h > 0
WithinTolerance(w, h) == Abs(900 * w - 1600 * h) < 9 * h

\* _calculate_16_9_crop with the taller branch multiplying by the target
\* aspect where the code divides
crop_tall_multiplies(raw_w, raw_h) ==
    IF raw_h <= 0 \/ WithinTolerance(raw_w, raw_h)
    THEN [screen_width |-> raw_w, screen_height |-> raw_h,
          crop_offset_x |-> 0, crop_offset_y |-> 0]
    ELSE IF 9 * raw_w > 16 * raw_h
    THEN LET sw == Trunc(16 * raw_h, 9)
         IN  [screen_width |-> sw, screen_height |-> raw_h,
              crop_offset_x |-> (raw_w - sw) \div 2, crop_offset_y |-> 0]
    ELSE LET sh == Trunc(16 * raw_w, 9)
         IN  [screen_width |-> raw_w, screen_height |-> sh,
              crop_offset_x |-> 0, crop_offset_y |-> (raw_h - sh) \div 2]

\* _calculate_16_9_crop with the wider branch storing its margin in
\* crop_offset_y
crop_wide_offsets_swapped(raw_w, raw_h) ==
    IF raw_h <= 0 \/ WithinTolerance(raw_w, raw_h)
    THEN [screen_width |-> raw_w, screen_height |-> raw_h,
          crop_offset_x |-> 0, crop_offset_y |-> 0]
    ELSE IF 9 * raw_w > 16 * raw_h
    THEN LET sw == Trunc(16 * raw_h, 9)
         IN  [screen_width |-> sw, screen_height |-> raw_h,
              crop_offset_x |-> 0, crop_offset_y |-> (raw_w - sw) \div 2]
    ELSE LET sh == Trunc(9 * raw_w, 16)
         IN  [screen_width |-> raw_w, screen_height |-> sh,
              crop_offset_x |-> 0, crop_offset_y |-> (raw_h - sh) \div 2]

\* _calculate_16_9_crop with the taller branch subtracting the wrong way round
crop_tall_offset_negated(raw_w, raw_h) ==
    IF raw_h <= 0 \/ WithinTolerance(raw_w, raw_h)
    THEN [screen_width |-> raw_w, screen_height |-> raw_h,
          crop_offset_x |-> 0, crop_offset_y |-> 0]
    ELSE IF 9 * raw_w > 16 * raw_h
    THEN LET sw == Trunc(16 * raw_h, 9)
         IN  [screen_width |-> sw, screen_height |-> raw_h,
              crop_offset_x |-> (raw_w - sw) \div 2, crop_offset_y |-> 0]
    ELSE LET sh == Trunc(9 * raw_w, 16)
         IN  [screen_width |-> raw_w, screen_height |-> sh,
              crop_offset_x |-> 0, crop_offset_y |-> (sh - raw_h) \div 2]

\* _calculate_16_9_crop with a tolerance of 0.001
crop_tolerance_tenth(raw_w, raw_h) ==
    IF raw_h <= 0 \/ Abs(9000 * raw_w - 16000 * raw_h) < 9 * raw_h
    THEN [screen_width |-> raw_w, screen_height |-> raw_h,
          crop_offset_x |-> 0, crop_offset_y |-> 0]
    ELSE IF 9 * raw_w > 16 * raw_h
    THEN LET sw == Trunc(16 * raw_h, 9)
         IN  [screen_width |-> sw, screen_height |-> raw_h,
              crop_offset_x |-> (raw_w - sw) \div 2, crop_offset_y |-> 0]
    ELSE LET sh == Trunc(9 * raw_w, 16)
         IN  [screen_width |-> raw_w, screen_height |-> sh,
              crop_offset_x |-> 0, crop_offset_y |-> (raw_h - sh) \div 2]

_calculate_16_9_crop(raw_w, raw_h) ==
    IF raw_h <= 0 \/ WithinTolerance(raw_w, raw_h)
    THEN [screen_width |-> raw_w, screen_height |-> raw_h,
          crop_offset_x |-> 0, crop_offset_y |-> 0]
    ELSE IF 9 * raw_w > 16 * raw_h
    THEN LET sw == Trunc(16 * raw_h, 9)
         IN  [screen_width |-> sw, screen_height |-> raw_h,
              crop_offset_x |-> (raw_w - sw) \div 2, crop_offset_y |-> 0]
    ELSE LET sh == Trunc(9 * raw_w, 16)
         IN  [screen_width |-> raw_w, screen_height |-> sh,
              crop_offset_x |-> 0, crop_offset_y |-> (raw_h - sh) \div 2]

\* the scale lookup dividing by the reference sizes the wrong way round
resolve_scale_reference_swapped(table, width, height) ==
    IF <<width, height>> \in DOMAIN table
    THEN table[<<width, height>>]
    ELSE << <<width, 1440>>, <<height, 3440>> >>

\* self.scales[key] when present, else width / 3440.0 and height / 1440.0
resolve_scale(table, width, height) ==
    IF <<width, height>> \in DOMAIN table
    THEN table[<<width, height>>]
    ELSE << <<width, 3440>>, <<height, 1440>> >>

WindowNotFound == "ERROR: Could not find window Elite - Dangerous (CLIENT)."

Construct ==
    /\ pc = "new"
    /\ tpc[Caller] = "idle"
    /\ mss_instance' = Acquired(Caller).instance
    /\ handle_creator' = Acquired(Caller).creator
    /\ UNCHANGED << tpc, got >>
    /\ LET sel  == monitor_loop(mons, ed_window, 0, NoSelection)
           crop == _calculate_16_9_crop(sel.raw_screen_width,
                                        sel.raw_screen_height)
           tbl  == IF config_file # None THEN config_file[1]
                   ELSE DefaultScales
           sc   == resolve_scale(tbl, crop.screen_width, crop.screen_height)
       IN  /\ cb_log' = IF ed_window = None THEN <<WindowNotFound>> ELSE << >>
           /\ has_mon' = sel.has_mon
           /\ monitor_number' = sel.monitor_number
           /\ raw_screen_width' = sel.raw_screen_width
           /\ raw_screen_height' = sel.raw_screen_height
           /\ screen_width' = crop.screen_width
           /\ screen_height' = crop.screen_height
           /\ crop_offset_x' = crop.crop_offset_x
           /\ crop_offset_y' = crop.crop_offset_y
           /\ scales' = tbl
           /\ scaleX' = sc[1]
           /\ scaleY' = sc[2]
    /\ pc' = "ready"
    /\ op' = "__init__"
    /\ ret' = NoResult
    /\ grab_req' = None
    /\ UNCHANGED << mons, ed_window, config_file, using_screen, _screen_image >>

(************************ images *******************************************)
\* An image is a window onto a pixel source: the rectangle left, top, width,
\* height of source, with the channel order of its pixels.  A still image a
\* caller loaded is the whole of its own source.
Image(source, left, top, width, height, order) ==
    [kind |-> "image", source |-> source, left |-> left, top |-> top,
     width |-> width, height |-> height, order |-> order]

StillImages ==
    { Image("still_a", 0, 0, 1920, 1080, "BGR"),
      Image("still_b", 0, 0, 1280, 1024, "BGR") }

Error(name) == [kind |-> "error", error |-> name]
Rect(r) == [kind |-> "rect", rect |-> r]

\* cv2.cvtColor with COLOR_RGB2BGR or COLOR_BGR2RGB: both swap channels 0 and 2
\* and raise cv2.error on an empty image
cvtColor(image) ==
    IF image.width = 0 \/ image.height = 0 THEN Error("cv2.error")
    ELSE [image EXCEPT !.order = IF @ = "BGR" THEN "RGB" ELSE "BGR"]

\* Python slice lo:hi of an axis of length n: <<start, length>>
Slice(lo, hi, n) ==
    LET norm(i) == IF i < 0 THEN (IF i + n < 0 THEN 0 ELSE i + n)
                   ELSE (IF i > n THEN n ELSE i)
        a == norm(lo)
        b == norm(hi)
    IN  << a, IF b > a THEN b - a ELSE 0 >>

\* image[y0:y1, x0:x1]
Sub(image, x0, y0, x1, y1) ==
    LET xs == Slice(x0, x1, image.width)
        ys == Slice(y0, y1, image.height)
    IN  [image EXCEPT !.left = @ + xs[1], !.top = @ + ys[1],
                      !.width = xs[2], !.height = ys[2]]

(************************ coordinate conversions ***************************)
\* percent values: floats with an exact binary expansion, as <<num, den>>
Pcts == { <<0, 1>>, <<1, 8>>, <<1, 2>>, <<7, 8>>, <<1, 1>>,
          <<-1, 4>>, <<5, 4>> }
\* rects, inverted and out-of-range ones included, whose every component
\* takes every percent value
LawRects == { <<p, q, q, p>> : p \in Pcts, q \in Pcts }

\* the percent rects the operations are called with
PctRects == { << <<0, 1>>, <<0, 1>>, <<1, 1>>, <<1, 1>> >>,
              << <<1, 8>>, <<1, 2>>, <<7, 8>>, <<7, 8>> >>,
              << <<1, 2>>, <<1, 8>>, <<1, 2>>, <<7, 8>> >>,
              << <<7, 8>>, <<-1, 4>>, <<1, 8>>, <<5, 4>> >> }

\* the pixel rects the operations are called with
PixelRects == { <<100, 50, 400, 250>>, <<300, 20, 300, 40>>,
                <<500, 400, 200, 100>> }

screen_rect_to_abs(rect) ==
    << Trunc(rect[1][1] * screen_width, rect[1][2]),
       Trunc(rect[2][1] * screen_height, rect[2][2]),
       Trunc(rect[3][1] * screen_width, rect[3][2]),
       Trunc(rect[4][1] * screen_height, rect[4][2]) >>

\* screen_rect_to_abs_overlay scaling by the raw dims before adding the offsets
screen_rect_to_abs_overlay_raw_dims(rect) ==
    << Trunc(rect[1][1] * raw_screen_width, rect[1][2]) + crop_offset_x,
       Trunc(rect[2][1] * raw_screen_height, rect[2][2]) + crop_offset_y,
       Trunc(rect[3][1] * raw_screen_width, rect[3][2]) + crop_offset_x,
       Trunc(rect[4][1] * raw_screen_height, rect[4][2]) + crop_offset_y >>

screen_rect_to_abs_overlay(rect) ==
    << Trunc(rect[1][1] * screen_width, rect[1][2]) + crop_offset_x,
       Trunc(rect[2][1] * screen_height, rect[2][2]) + crop_offset_y,
       Trunc(rect[3][1] * screen_width, rect[3][2]) + crop_offset_x,
       Trunc(rect[4][1] * screen_height, rect[4][2]) + crop_offset_y >>

\* abs_rect_to_overlay adding crop_offset_x to all four components
abs_rect_to_overlay_x_only(rect) ==
    << rect[1] + crop_offset_x, rect[2] + crop_offset_x,
       rect[3] + crop_offset_x, rect[4] + crop_offset_x >>

abs_rect_to_overlay(rect) ==
    << rect[1] + crop_offset_x, rect[2] + crop_offset_y,
       rect[3] + crop_offset_x, rect[4] + crop_offset_y >>

\* crop_image_by_pct unpacking image.shape as (w, h, ch)
crop_image_by_pct_shape_swapped(image, rect) ==
    Sub(image, Trunc(image.height * rect[1][1], rect[1][2]),
               Trunc(image.width * rect[2][1], rect[2][2]),
               Trunc(image.height * rect[3][1], rect[3][2]),
               Trunc(image.width * rect[4][1], rect[4][2]))

crop_image_by_pct(image, rect) ==
    Sub(image, Trunc(image.width * rect[1][1], rect[1][2]),
               Trunc(image.height * rect[2][1], rect[2][2]),
               Trunc(image.width * rect[3][1], rect[3][2]),
               Trunc(image.height * rect[4][1], rect[4][2]))

crop_image(image, rect) == Sub(image, rect[1], rect[2], rect[3], rect[4])

(************************ live capture *************************************)
\* the monitor dict get_screen hands to mss.grab
GrabRequest(x_left, y_top, x_right, y_bot) ==
    [top |-> mons[monitor_number].top + crop_offset_y + y_top,
     left |-> mons[monitor_number].left + crop_offset_x + x_left,
     width |-> x_right - x_left,
     height |-> y_bot - y_top,
     mon |-> monitor_number]

\* array(mss.grab(monitor)): the OS call may fail on any request; on success
\* the pixels of the requested rectangle arrive BGR-ordered.  A rectangle of
\* negative extent never yields an array.
GrabOutcomes(monitor) ==
    { Error("ScreenShotError") } \cup
    ( IF monitor.width >= 0 /\ monitor.height >= 0
      THEN { Image("screen", monitor.left, monitor.top,
                   monitor.width, monitor.height, "BGR") }
      ELSE { } )

\* the values get_screen may return or raise
get_screen(x_left, y_top, x_right, y_bot, rgb) ==
    IF ~has_mon THEN { Error("AttributeError") }
    ELSE { IF image.kind = "image" /\ rgb THEN cvtColor(image) ELSE image :
             image \in GrabOutcomes(GrabRequest(x_left, y_top, x_right, y_bot)) }

\* whether get_screen reaches mss.grab
Grabs(x_left, y_top, x_right, y_bot) ==
    IF has_mon THEN Some(GrabRequest(x_left, y_top, x_right, y_bot)) ELSE None

\* the second conversion deleted, as the TODO of the code proposes, while
\* get_screen still converts
Reconvert_deleted(image) == image

\* the second conversion get_screen_rect_pct and get_screen_full apply
Reconvert(image) == IF image.kind = "image" THEN cvtColor(image) ELSE image

get_screen_rect_pct(rect) ==
    IF using_screen
    THEN LET abs_rect == screen_rect_to_abs(rect)
         IN  { Reconvert(image) :
                 image \in get_screen(abs_rect[1], abs_rect[2],
                                      abs_rect[3], abs_rect[4], TRUE) }
    ELSE IF _screen_image = None THEN { NoResult }
    ELSE { crop_image_by_pct(_screen_image[1], rect) }

get_screen_full ==
    IF using_screen
    THEN { Reconvert(image) :
             image \in get_screen(0, 0, screen_width, screen_height, TRUE) }
    ELSE IF _screen_image = None THEN { NoResult }
    ELSE { _screen_image[1] }

(************************ operations ***************************************)
Returns(name, value, request) ==
    /\ op' = name
    /\ ret' = value
    /\ grab_req' = request

object == << has_mon, monitor_number, raw_screen_width, raw_screen_height,
             crop_offset_x, crop_offset_y, screen_width, screen_height,
             scales, scaleX, scaleY, using_screen, _screen_image, cb_log >>

\* get_screen forgetting the monitor when the grab fails
Do_get_screen_forgets_monitor(r, rgb) ==
    /\ pc = "ready"
    /\ \E v \in get_screen(r[1], r[2], r[3], r[4], rgb) :
         /\ Returns("get_screen", v, Grabs(r[1], r[2], r[3], r[4]))
         /\ has_mon' = (has_mon /\ v.kind # "error")
    /\ UNCHANGED << pc, environment, threads, config_file, monitor_number,
                    raw_screen_width, raw_screen_height, crop_offset_x,
                    crop_offset_y, screen_width, screen_height, scales,
                    scaleX, scaleY, using_screen, _screen_image, cb_log >>

Do_get_screen(r, rgb) ==
    /\ pc = "ready"
    /\ \E v \in get_screen(r[1], r[2], r[3], r[4], rgb) :
         Returns("get_screen", v, Grabs(r[1], r[2], r[3], r[4]))
    /\ UNCHANGED << pc, environment, threads, config_file, object >>

Call_get_screen ==
    \E r \in PixelRects : \E rgb \in BOOLEAN : Do_get_screen(r, rgb)

\* the regions get_screen_region is called with: pixel values as floats
Regions == { << <<125, 1>>, <<500, 1>>, <<875, 1>>, <<1751, 2>> >>,
             << <<875, 1>>, <<-250, 1>>, <<125, 1>>, <<1250, 1>> >> }

\* reg holds numbers; int() of each is taken
Do_get_screen_region(reg, rgb) ==
    /\ pc = "ready"
    /\ LET r == << Trunc(reg[1][1], reg[1][2]), Trunc(reg[2][1], reg[2][2]),
                   Trunc(reg[3][1], reg[3][2]), Trunc(reg[4][1], reg[4][2]) >>
       IN  \E v \in get_screen(r[1], r[2], r[3], r[4], rgb) :
              Returns("get_screen_region", v, Grabs(r[1], r[2], r[3], r[4]))
    /\ UNCHANGED << pc, environment, threads, config_file, object >>

Call_get_screen_region ==
    \E reg \in Regions : \E rgb \in BOOLEAN : Do_get_screen_region(reg, rgb)

Do_get_screen_rect_pct(rect) ==
    /\ pc = "ready"
    /\ \E v \in get_screen_rect_pct(rect) :
         LET a == screen_rect_to_abs(rect)
         IN  Returns("get_screen_rect_pct", v,
                     IF using_screen THEN Grabs(a[1], a[2], a[3], a[4])
                     ELSE None)
    /\ UNCHANGED << pc, environment, threads, config_file, object >>

Call_get_screen_rect_pct ==
    \E rect \in PctRects : Do_get_screen_rect_pct(rect)

Call_get_screen_full ==
    /\ pc = "ready"
    /\ \E v \in get_screen_full :
         Returns("get_screen_full", v,
                 IF using_screen
                 THEN Grabs(0, 0, screen_width, screen_height) ELSE None)
    /\ UNCHANGED << pc, environment, threads, config_file, object >>

Call_screen_rect_to_abs ==
    /\ pc = "ready"
    /\ \E rect \in PctRects :
         Returns("screen_rect_to_abs", Rect(screen_rect_to_abs(rect)), None)
    /\ UNCHANGED << pc, environment, threads, config_file, object >>

Call_screen_rect_to_abs_overlay ==
    /\ pc = "ready"
    /\ \E rect \in PctRects :
         Returns("screen_rect_to_abs_overlay",
                 Rect(screen_rect_to_abs_overlay(rect)), None)
    /\ UNCHANGED << pc, environment, threads, config_file, object >>

Call_abs_rect_to_overlay ==
    /\ pc = "ready"
    /\ \E rect \in PixelRects :
         Returns("abs_rect_to_overlay", Rect(abs_rect_to_overlay(rect)), None)
    /\ UNCHANGED << pc, environment, threads, config_file, object >>

Call_crop_image_by_pct ==
    /\ pc = "ready"
    /\ \E image \in StillImages : \E rect \in PctRects :
         Returns("crop_image_by_pct", crop_image_by_pct(image, rect), None)
    /\ UNCHANGED << pc, environment, threads, config_file, object >>

Call_crop_image ==
    /\ pc = "ready"
    /\ \E image \in StillImages : \E rect \in PixelRects :
         Returns("crop_image", crop_image(image, rect), None)
    /\ UNCHANGED << pc, environment, threads, config_file, object >>

\* set_screen_image unpacking image.shape as (w, h, ch)
set_screen_image_shape_swapped ==
    /\ pc = "ready"
    /\ \E image \in StillImages :
         /\ using_screen' = FALSE
         /\ _screen_image' = Some(image)
         /\ screen_width' = image.height
         /\ screen_height' = image.width
    /\ Returns("set_screen_image", NoResult, None)
    /\ UNCHANGED << pc, environment, threads, config_file, has_mon, monitor_number,
                    raw_screen_width, raw_screen_height, crop_offset_x,
                    crop_offset_y, scales, scaleX, scaleY, cb_log >>

\* set_screen_image also clearing the crop offsets
set_screen_image_clears_offsets ==
    /\ pc = "ready"
    /\ \E image \in StillImages :
         /\ using_screen' = FALSE
         /\ _screen_image' = Some(image)
         /\ screen_width' = image.width
         /\ screen_height' = image.height
    /\ crop_offset_x' = 0
    /\ crop_offset_y' = 0
    /\ Returns("set_screen_image", NoResult, None)
    /\ UNCHANGED << pc, environment, threads, config_file, has_mon, monitor_number,
                    raw_screen_width, raw_screen_height,
                    scales, scaleX, scaleY, cb_log >>

set_screen_image ==
    /\ pc = "ready"
    /\ \E image \in StillImages :
         /\ using_screen' = FALSE
         /\ _screen_image' = Some(image)
         /\ screen_width' = image.width
         /\ screen_height' = image.height
    /\ Returns("set_screen_image", NoResult, None)
    /\ UNCHANGED << pc, environment, threads, config_file, has_mon, monitor_number,
                    raw_screen_width, raw_screen_height, crop_offset_x,
                    crop_offset_y, scales, scaleX, scaleY, cb_log >>

\* a caller switching to static mode by assigning scr.using_screen = False,
\* the attribute's documented use, without handing over an image
assign_using_screen ==
    /\ pc = "ready"
    /\ using_screen
    /\ using_screen' = FALSE
    /\ Returns("using_screen", NoResult, None)
    /\ UNCHANGED << pc, environment, threads, config_file, has_mon,
                    monitor_number, raw_screen_width, raw_screen_height,
                    crop_offset_x, crop_offset_y, screen_width, screen_height,
                    scales, scaleX, scaleY, _screen_image, cb_log >>

\* json.dump of data, or of self.scales when data is None; a failure to open
\* the file is logged and leaves it as it was
write_config ==
    /\ pc = "ready"
    /\ \E data \in { None, Some(CustomScales) } :
         \E opened \in BOOLEAN :
            config_file' = IF ~opened THEN config_file
                           ELSE IF data = None THEN Some(scales) ELSE data
    /\ Returns("write_config", NoResult, None)
    /\ UNCHANGED << pc, environment, threads, object >>

\* json.load of the file, None when it cannot be read
read_config ==
    /\ pc = "ready"
    /\ Returns("read_config", [kind |-> "table", table |-> config_file], None)
    /\ UNCHANGED << pc, environment, threads, config_file, object >>

(***************************** specifications ******************************)
Blank ==
    /\ pc = "new"
    /\ has_mon = FALSE
    /\ monitor_number = 0
    /\ raw_screen_width = 0
    /\ raw_screen_height = 0
    /\ crop_offset_x = 0
    /\ crop_offset_y = 0
    /\ screen_width = 0
    /\ screen_height = 0
    /\ scales = DefaultScales
    /\ scaleX = <<0, 1>>
    /\ scaleY = <<0, 1>>
    /\ using_screen = TRUE
    /\ _screen_image = None
    /\ cb_log = << >>
    /\ op = "none"
    /\ ret = NoResult
    /\ grab_req = None
    /\ mss_instance = [t \in Threads |-> None]
    /\ handle_creator = << >>
    /\ tpc = [t \in Threads |-> "idle"]
    /\ got = [t \in Threads |-> << >>]

RealMonitors(n) == [1..n -> PhysMonitors]

Init ==
    /\ Blank
    /\ \E n \in 1..MaxMons : \E real \in RealMonitors(n) :
          mons = MonitorList(real)
    /\ ed_window \in WindowRects
    /\ config_file \in ConfigFiles

Next ==
    \/ Construct
    \/ Call_get_screen
    \/ Call_get_screen_region
    \/ Call_get_screen_rect_pct
    \/ Call_get_screen_full
    \/ Call_screen_rect_to_abs
    \/ Call_screen_rect_to_abs_overlay
    \/ Call_abs_rect_to_overlay
    \/ Call_crop_image_by_pct
    \/ Call_crop_image
    \/ set_screen_image
    \/ assign_using_screen
    \/ write_config
    \/ read_config

Spec == Init /\ [][Next]_vars

\* one monitor of every size of the grid or of a size the specification
\* names, the window absent, on it, or off it
NamedDims == { <<1920, 1080>>, <<2560, 1440>>, <<3440, 1440>>,
               <<3840, 1080>>, <<1280, 1024>>, <<7680, 4320>> }

InitCrop ==
    /\ Blank
    /\ \E d \in ((1..MaxRawW) \X (1..MaxRawH)) \cup NamedDims :
          mons = MonitorList(<< Monitor(<<0, 0>>, d) >>)
    /\ ed_window \in { None, <<0, 0>>, <<-8, -8>> }
    /\ config_file \in IF <<mons[1].width, mons[1].height>> \in NamedDims
                       THEN ConfigFiles ELSE { None }

NextCrop ==
    \/ Construct

SpecCrop == InitCrop /\ [][NextCrop]_vars

\* threads reading Screen.mss in any interleaving, one of them constructing
\* a Screen object
InitMss ==
    /\ Blank
    /\ mons = MonitorList(<< Monitor(<<0, 0>>, <<1920, 1080>>) >>)
    /\ ed_window = None
    /\ config_file = None

Inert == << pc, mons, ed_window, config_file, object, op, ret, grab_req >>

NextMss ==
    \/ Construct
    \/ \E t \in Threads : MssRead(t) /\ UNCHANGED Inert
    \/ \E t \in Threads : MssCreate(t) /\ UNCHANGED Inert

SpecMss == InitMss /\ [][NextMss]_vars

(***************************** claims **************************************)
\* C1  Composability law: whatever the crop geometry, converting a percent
\* rect straight to overlay pixels gives, component by component, the rect
\* obtained by converting it to capture pixels and then adding the crop
\* offset to the result.
C1_Composable ==
    pc = "ready" =>
        \A r \in LawRects \cup PctRects :
            screen_rect_to_abs_overlay(r)
                = abs_rect_to_overlay(screen_rect_to_abs(r))

\* a cropped screen (both offsets cannot be equal) on which the overlay
\* conversion has just returned a rect that differs from the capture rect
C1_Witness ==
    /\ pc = "ready"
    /\ op = "screen_rect_to_abs_overlay"
    /\ crop_offset_x > 0
    /\ \E r \in PctRects :
         /\ ret = Rect(abs_rect_to_overlay(screen_rect_to_abs(r)))
         /\ ret.rect # screen_rect_to_abs(r)
         /\ ret.rect[2] < 0
\* ---- the crop computed at construction (SpecCrop) ----
\* |w / h - 16/9| <= 0.01 for a rectangle w x h; no rectangle of height 0 has
\* an aspect
RatioNear16_9(w, h) == h > 0 /\ Abs(900 * w - 1600 * h) <= 9 * h
RawWider == raw_screen_height > 0
            /\ 900 * raw_screen_width - 1600 * raw_screen_height
                   >= 9 * raw_screen_height
RawTaller == raw_screen_height > 0
             /\ 1600 * raw_screen_height - 900 * raw_screen_width
                    >= 9 * raw_screen_height
RawAt16_9 == raw_screen_height > 0
             /\ Abs(900 * raw_screen_width - 1600 * raw_screen_height)
                    < 9 * raw_screen_height
NoCrop == /\ crop_offset_x = 0
          /\ crop_offset_y = 0
          /\ screen_width = raw_screen_width
          /\ screen_height = raw_screen_height

\* C2 as stated: for every raw width and height the crop lies inside the raw
\* screen, its offsets are not negative and its aspect is within 0.01 of 16/9.
C2_Original ==
    pc = "ready" =>
        /\ screen_width <= raw_screen_width
        /\ screen_height <= raw_screen_height
        /\ crop_offset_x >= 0
        /\ crop_offset_y >= 0
        /\ RatioNear16_9(screen_width, screen_height)

\* C2 amended: for every raw width and height the crop lies inside the raw
\* screen and its offsets are not negative; its aspect is within 0.01 of 16/9
\* whenever the cropped height is at least 167 pixels.
C2_CropInvariant ==
    pc = "ready" =>
        /\ screen_width <= raw_screen_width
        /\ screen_height <= raw_screen_height
        /\ crop_offset_x >= 0
        /\ crop_offset_y >= 0
        /\ screen_height >= 167 => RatioNear16_9(screen_width, screen_height)

\* a 5:4-like screen cropped to at least 167 rows whose aspect is near
\* 16/9 without being 16/9
C2_Witness ==
    /\ pc = "ready"
    /\ crop_offset_y > 0
    /\ screen_height >= 167
    /\ screen_height < raw_screen_height
    /\ 9 * screen_width # 16 * screen_height
    /\ RatioNear16_9(screen_width, screen_height)

\* C3 as stated: every raw screen wider than 16:9 beyond the tolerance gets
\* offsetY = 0, offsetX > 0 and the full raw height.
C3_Original ==
    (pc = "ready" /\ RawWider) =>
        /\ crop_offset_y = 0
        /\ crop_offset_x > 0
        /\ screen_height = raw_screen_height

\* C3 amended: every raw screen wider than 16:9 beyond the tolerance gets
\* offsetY = 0, offsetX >= 0 and the full raw height, and offsetX > 0 whenever
\* the raw height is at least 100 pixels.
C3_Wider ==
    (pc = "ready" /\ RawWider) =>
        /\ crop_offset_y = 0
        /\ crop_offset_x >= 0
        /\ screen_height = raw_screen_height
        /\ raw_screen_height >= 100 => crop_offset_x > 0

\* the narrowest wider-than-16:9 screen 100 rows high
C3_Witness ==
    /\ pc = "ready"
    /\ RawWider
    /\ raw_screen_height = 100
    /\ raw_screen_width = 179
    /\ crop_offset_x = 1
    /\ screen_width = 177

\* C4 as stated: every raw screen taller than 16:9 beyond the tolerance gets
\* offsetX = 0, offsetY > 0 and the full raw width.
C4_Original ==
    (pc = "ready" /\ RawTaller) =>
        /\ crop_offset_x = 0
        /\ crop_offset_y > 0
        /\ screen_width = raw_screen_width

\* C4 amended: every raw screen taller than 16:9 beyond the tolerance gets
\* offsetX = 0, offsetY >= 0 and the full raw width, and offsetY > 0 whenever
\* the raw height is at least 178 pixels.
C4_Taller ==
    (pc = "ready" /\ RawTaller) =>
        /\ crop_offset_x = 0
        /\ crop_offset_y >= 0
        /\ screen_width = raw_screen_width
        /\ raw_screen_height >= 178 => crop_offset_y > 0

\* a taller screen at least 178 rows high losing a single row at the top
C4_Witness ==
    /\ pc = "ready"
    /\ RawTaller
    /\ raw_screen_height >= 178
    /\ crop_offset_y = 1
    /\ screen_width = raw_screen_width
    /\ screen_height < raw_screen_height

\* C5 as stated: a raw screen within 0.01 of 16:9, of which 2560x1440 and
\* 3440x1440 are examples, or of height 0, is not cropped.
C5_Original ==
    (pc = "ready" /\ ( \/ RawAt16_9
                       \/ raw_screen_height = 0
                       \/ <<raw_screen_width, raw_screen_height>>
                              \in { <<2560, 1440>>, <<3440, 1440>> } ))
        => NoCrop

\* C5 amended: a raw screen within 0.01 of 16:9, of which 2560x1440 is an
\* example, or of height 0, is not cropped; 3440x1440 is not such a screen
\* and is cropped to 2560x1440 at offsets (440, 0).
C5_NoCrop ==
    pc = "ready" =>
        /\ (RawAt16_9 \/ raw_screen_height = 0) => NoCrop
        /\ <<raw_screen_width, raw_screen_height>> = <<2560, 1440>> => NoCrop
        /\ <<raw_screen_width, raw_screen_height>> = <<3440, 1440>> =>
              /\ screen_width = 2560
              /\ screen_height = 1440
              /\ crop_offset_x = 440
              /\ crop_offset_y = 0

\* a screen inside the tolerance that is not exactly 16:9, left uncropped
C5_Witness ==
    /\ pc = "ready"
    /\ RawAt16_9
    /\ 9 * raw_screen_width # 16 * raw_screen_height
    /\ raw_screen_width > 0
    /\ NoCrop

\* ---- construction (Spec) ----
\* indices of the physical monitors whose origin is the window's
Matches == { i \in 1..LastIndex(mons) :
               mons[i].left = ed_window[1] /\ mons[i].top = ed_window[2] }

\* C6 as stated: with the window found, the monitor selected is the
\* lowest-index physical monitor at the window's origin, never monitor 0.
C6_FirstMatch ==
    (pc = "ready" /\ ed_window # None /\ Matches # { }) =>
        /\ has_mon
        /\ monitor_number # 0
        /\ monitor_number = Min(Matches)

\* C7 as stated: whatever the window state, construction ends with a selected
\* monitor of index >= 1 whose size is the raw screen size.
C7_AlwaysTargets ==
    pc = "ready" =>
        /\ has_mon
        /\ monitor_number >= 1
        /\ raw_screen_width = mons[monitor_number].width
        /\ raw_screen_height = mons[monitor_number].height

\* C8  Discovery failure fallback: with the window not found, construction
\* completes having reported the failure through the callback, with monitor 1
\* selected and its width and height as the raw screen size; nothing is
\* reported when the window is found.
C8_DefaultMonitor ==
    pc = "ready" =>
        /\ ed_window = None =>
              /\ cb_log = << WindowNotFound >>
              /\ has_mon
              /\ monitor_number = 1
              /\ raw_screen_width = mons[1].width
              /\ raw_screen_height = mons[1].height
        /\ ed_window # None => cb_log = << >>

\* the window absent and two different monitors to choose from
C8_Witness ==
    /\ pc = "ready"
    /\ ed_window = None
    /\ LastIndex(mons) >= 2
    /\ mons[2].width # mons[1].width
    /\ monitor_number = 1
    /\ cb_log # << >>

\* ---- static mode (Spec) ----
\* C9  Static-mode isolation: once set_screen_image(img) has run, the object
\* is in static mode holding img, screen_width and screen_height are img's
\* width and height whatever the selected monitor's size, and a
\* get_screen_full call returns img itself without a grab.
C9_StaticIsolation ==
    /\ op = "set_screen_image" => ~using_screen /\ _screen_image # None
    /\ _screen_image # None =>
          /\ ~using_screen
          /\ _screen_image[1] \in StillImages
          /\ screen_width = _screen_image[1].width
          /\ screen_height = _screen_image[1].height
          /\ (op = "get_screen_full" /\ ~using_screen) =>
                ret = _screen_image[1] /\ grab_req = None

\* a full-frame capture served from a still image whose size is not the
\* selected monitor's
C9_Witness ==
    /\ ~using_screen
    /\ _screen_image # None
    /\ op = "get_screen_full"
    /\ has_mon
    /\ ret = _screen_image[1]
    /\ ret.width # raw_screen_width
    /\ crop_offset_x > 0

\* C10 as stated: no operation after construction changes the selected
\* monitor or any component of the crop geometry.
C10_Original ==
    [][pc = "ready" => UNCHANGED geometry]_vars

\* C10 amended: no operation after construction changes the selected monitor,
\* the crop offsets or the raw width and height; the cropped width and height
\* are changed by set_screen_image only, which sets them to the image's.
C10_Immutable ==
    [][pc = "ready" =>
          /\ UNCHANGED << has_mon, monitor_number, raw_screen_width,
                          raw_screen_height, crop_offset_x, crop_offset_y >>
          /\ op' # "set_screen_image" => UNCHANGED << screen_width, screen_height >>
          /\ op' = "set_screen_image" =>
                /\ screen_width' = _screen_image'[1].width
                /\ screen_height' = _screen_image'[1].height]_vars

\* an image injected over a cropped screen: the offsets of construction are
\* kept, the cropped size is not
C10_Witness ==
    /\ pc = "ready"
    /\ op = "set_screen_image"
    /\ crop_offset_x > 0
    /\ crop_offset_x
         = _calculate_16_9_crop(raw_screen_width, raw_screen_height).crop_offset_x
    /\ screen_width
         # _calculate_16_9_crop(raw_screen_width, raw_screen_height).screen_width

\* ---- capture in static mode (Spec) ----
CaptureOps == { "get_screen", "get_screen_region", "get_screen_rect_pct",
                "get_screen_full" }

\* C11 as stated: once an image has been injected, no capture operation
\* hands a request to mss.grab, and every frame returned is cut from the
\* still image.
C11_NoGrabWhenStatic ==
    (pc = "ready" /\ ~using_screen /\ _screen_image # None
       /\ op \in CaptureOps) =>
        /\ grab_req = None
        /\ ret.kind = "image" => ret.source = _screen_image[1].source

\* ---- scale resolution (SpecCrop, Spec) ----
\* equality of the rationals a and b
RatEq(a, b) == a[1] * b[2] = b[1] * a[2]

\* C12  Scale resolution: the scale factors set at construction are the
\* table's entry for "{w}x{h}" when the table has that key, and w/3440 and
\* h/1440 otherwise, w and h being the dims the lookup is made with; with the
\* built-in table 1920x1080 resolves to (0.75, 0.75) and 7680x4320 to
\* (7680/3440, 4320/1440).
C12_ScaleResolution ==
    pc = "ready" =>
        LET key == <<screen_width, screen_height>>
        IN  /\ key \in DOMAIN scales =>
                  scaleX = scales[key][1] /\ scaleY = scales[key][2]
            /\ key \notin DOMAIN scales =>
                  /\ RatEq(scaleX, <<screen_width, 3440>>)
                  /\ RatEq(scaleY, <<screen_height, 1440>>)
            /\ (scales = DefaultScales /\ key = <<1920, 1080>>) =>
                  RatEq(scaleX, <<3, 4>>) /\ RatEq(scaleY, <<3, 4>>)
            /\ (scales = DefaultScales /\ key = <<7680, 4320>>) =>
                  RatEq(scaleX, <<7680, 3440>>) /\ RatEq(scaleY, <<4320, 1440>>)

\* the unlisted 7680x4320 resolved by the fallback under the built-in table
C12_Witness ==
    /\ pc = "ready"
    /\ scales = DefaultScales
    /\ screen_width = 7680
    /\ screen_height = 4320
    /\ scaleX = <<7680, 3440>>
    /\ scaleY = <<4320, 1440>>

\* C13 as stated: when the table has no entry for the monitor, the scale
\* factors set at construction are the selected monitor's raw width / 3440
\* and raw height / 1440, cropped or not.
C13_RawFallback ==
    (pc = "ready" /\ op = "__init__" /\ has_mon
       /\ <<screen_width, screen_height>> \notin DOMAIN scales
       /\ <<raw_screen_width, raw_screen_height>> \notin DOMAIN scales) =>
        /\ RatEq(scaleX, <<raw_screen_width, 3440>>)
        /\ RatEq(scaleY, <<raw_screen_height, 1440>>)

\* ---- the per-thread capture handle (SpecMss) ----
\* C14  Per-thread capture handle: in every interleaving, each handle a
\* thread's read of Screen.mss returned was created by that thread, all reads
\* of one thread returned the same handle, and no handle was returned to two
\* threads.
C14_PerThreadHandle ==
    \A t \in Threads :
        /\ \A i \in 1..Len(got[t]) :
              /\ got[t][i] \in 1..Len(handle_creator)
              /\ handle_creator[got[t][i]] = t
              /\ got[t][i] = got[t][1]
        /\ \A u \in Threads \ { t } :
              \A i \in 1..Len(got[t]) : \A j \in 1..Len(got[u]) :
                  got[t][i] # got[u][j]

\* two threads that have each read the property twice, the second having
\* created its handle while the first was between its test and its creation
C14_Witness ==
    /\ Len(got[1]) = 2
    /\ Len(got[2]) = 2
    /\ got[1][1] = 2
    /\ got[2][1] = 1
    /\ tpc[3] = "create"

\* ---- capture failures (Spec) ----
\* some capture call can return a frame
CanCapture ==
    \E r \in PixelRects :
        \E v \in get_screen(r[1], r[2], r[3], r[4], TRUE) : v.kind = "image"

\* C15  Capture failure is per-call: a capture call whose OS grab fails raises
\* the error to its caller and changes neither the selected monitor, the crop
\* offsets, the cropped and raw dims, the scale table, the scale factors nor
\* the mode, and a capture call made after it can return a frame.
C15_FailurePerCall ==
    [][(op' \in CaptureOps /\ ret' = Error("ScreenShotError")) =>
          /\ grab_req' # None
          /\ UNCHANGED << has_mon, monitor_number, crop_offset_x,
                          crop_offset_y, screen_width, screen_height,
                          raw_screen_width, raw_screen_height, scales,
                          scaleX, scaleY, using_screen, _screen_image >>
          /\ CanCapture']_vars

\* a failed grab on a cropped live screen, with a frame still obtainable
C15_Witness ==
    /\ op = "get_screen_rect_pct"
    /\ ret = Error("ScreenShotError")
    /\ grab_req # None
    /\ using_screen
    /\ crop_offset_x > 0
    /\ CanCapture

\* C16 as stated: every frame a live capture operation returns (get_screen
\* and get_screen_region with rgb left True, get_screen_rect_pct,
\* get_screen_full) is RGB-ordered.
C16_Original ==
    (pc = "ready" /\ using_screen) =>
        /\ \A r \in PixelRects :
              \A v \in get_screen(r[1], r[2], r[3], r[4], TRUE) :
                  v.kind = "image" => v.order = "RGB"
        /\ \A rect \in PctRects : \A v \in get_screen_rect_pct(rect) :
              v.kind = "image" => v.order = "RGB"
        /\ \A v \in get_screen_full : v.kind = "image" => v.order = "RGB"
        /\ (op \in CaptureOps \ { "get_screen", "get_screen_region" }
              /\ ret.kind = "image") => ret.order = "RGB"

\* C16 amended: a frame get_screen or get_screen_region returns with rgb left
\* True is RGB-ordered (one swap of the BGR pixels grabbed); a frame
\* get_screen_rect_pct or get_screen_full returns live is BGR-ordered, the
\* second conversion swapping the channels back.
C16_ChannelOrder ==
    (pc = "ready" /\ using_screen) =>
        /\ \A r \in PixelRects :
              \A v \in get_screen(r[1], r[2], r[3], r[4], TRUE) :
                  v.kind = "image" => v.order = "RGB"
        /\ \A rect \in PctRects : \A v \in get_screen_rect_pct(rect) :
              v.kind = "image" => v.order = "BGR"
        /\ \A v \in get_screen_full : v.kind = "image" => v.order = "BGR"
        /\ (op \in CaptureOps \ { "get_screen", "get_screen_region" }
              /\ ret.kind = "image") => ret.order = "BGR"

\* a full live frame returned in the order the grab delivered it
C16_Witness ==
    /\ pc = "ready"
    /\ using_screen
    /\ op = "get_screen_full"
    /\ ret.kind = "image"
    /\ ret.source = "screen"
    /\ ret.order = "BGR"
    /\ ret.width = screen_width

\* ---- degenerate rectangles (Spec) ----
Degenerate(r) == r[3] <= r[1] \/ r[4] <= r[2]

\* C17 as stated: a capture call whose pixel rectangle has non-positive width
\* or height, given in pixels to get_screen (rgb left True) or derived from a
\* percent rect by get_screen_rect_pct, ends in an error whatever the grab
\* does, and returns no frame.
C17_RejectsDegenerate ==
    pc = "ready" =>
        /\ \A r \in PixelRects :
              Degenerate(r) =>
                  \A v \in get_screen(r[1], r[2], r[3], r[4], TRUE) :
                      v.kind = "error"
        /\ \A rect \in PctRects :
              Degenerate(screen_rect_to_abs(rect)) =>
                  \A v \in get_screen_rect_pct(rect) : v.kind = "error"

\* ---- overlay rects (SpecCrop) ----
UnitPcts == { <<0, 1>>, <<1, 8>>, <<1, 2>>, <<7, 8>>, <<1, 1>> }
UnitRects == { <<p, q, q, p>> : p \in UnitPcts, q \in UnitPcts }
Inside(r, w, h) ==
    /\ 0 <= r[1] /\ r[1] <= w
    /\ 0 <= r[3] /\ r[3] <= w
    /\ 0 <= r[2] /\ r[2] <= h
    /\ 0 <= r[4] /\ r[4] <= h

\* C18  Overlay rects stay on the physical screen: on a live screen of any raw
\* size the crop lies inside the raw screen (offsetX + croppedWidth <=
\* rawWidth, offsetY + croppedHeight <= rawHeight), and for every percent rect
\* with components in [0,1] screen_rect_to_abs gives a rect inside the cropped
\* area and screen_rect_to_abs_overlay a rect inside the raw screen.
C18_OverlayOnScreen ==
    (pc = "ready" /\ using_screen) =>
        /\ crop_offset_x + screen_width <= raw_screen_width
        /\ crop_offset_y + screen_height <= raw_screen_height
        /\ \A r \in UnitRects :
              /\ Inside(screen_rect_to_abs(r), screen_width, screen_height)
              /\ Inside(screen_rect_to_abs_overlay(r),
                        raw_screen_width, raw_screen_height)

\* a side-cropped screen with an odd margin: the full rect ends one pixel
\* short of the right edge
C18_Witness ==
    /\ pc = "ready"
    /\ using_screen
    /\ crop_offset_x > 0
    /\ 2 * crop_offset_x + screen_width = raw_screen_width - 1
    /\ screen_rect_to_abs_overlay(<< <<0, 1>>, <<0, 1>>, <<1, 1>>, <<1, 1>> >>)
         = << crop_offset_x, 0, crop_offset_x + screen_width, screen_height >>

\* ---- static captures (Spec) ----
\* C19  Live and static paths address the same pixels: in static mode with an
\* image held, get_screen_rect_pct(r) returns, without a grab, exactly
\* crop_image(img, screen_rect_to_abs(r)) for every percent rect r; in static
\* mode with no image held, get_screen_rect_pct and get_screen_full return
\* None without a grab.
C19_StaticSamePixels ==
    (pc = "ready" /\ ~using_screen) =>
        /\ _screen_image # None =>
              /\ \A r \in LawRects \cup PctRects :
                    get_screen_rect_pct(r)
                      = { crop_image(_screen_image[1], screen_rect_to_abs(r)) }
              /\ op = "get_screen_rect_pct" =>
                    /\ grab_req = None
                    /\ \E r \in PctRects :
                          ret = crop_image(_screen_image[1], screen_rect_to_abs(r))
        /\ _screen_image = None =>
              /\ get_screen_full = { NoResult }
              /\ \A r \in LawRects \cup PctRects :
                    get_screen_rect_pct(r) = { NoResult }
              /\ op \in { "get_screen_rect_pct", "get_screen_full" } =>
                    ret = NoResult /\ grab_req = None

\* a region cut from the middle of a still image held over a cropped screen
C19_Witness ==
    /\ pc = "ready"
    /\ ~using_screen
    /\ _screen_image # None
    /\ op = "get_screen_rect_pct"
    /\ ret.kind = "image"
    /\ ret.source = _screen_image[1].source
    /\ ret.left > 0
    /\ ret.width > 0
    /\ ret.height > 0
    /\ ret.width < _screen_image[1].width
    /\ crop_offset_x > 0

\* static mode without an image: the capture returned None
C19_NoImageReached ==
    /\ ~using_screen
    /\ _screen_image = None
    /\ op = "get_screen_full"
    /\ ret = NoResult
====
